---- MODULE Spec2Model ----
(***************************************************************************)
(* The clipboard image helper of the QR-code tool (src/main.go):           *)
(* copyImageToClipboard dispatches on runtime.GOOS;                        *)
(* copyImageToClipboardWindows writes the image as PNG to a temp file,     *)
(* closes it, runs PowerShell on it and deletes it in a deferred cleanup.  *)
(*                                                                         *)
(* Each invocation is a call c with a program position pc[c]; one action   *)
(* per system call of the helper.  The environment (file system, clock,    *)
(* external process) is nondeterministic where the code cannot control it. *)
(***************************************************************************)
EXTENDS Integers, Sequences, FiniteSets, TLC

\* ---------------------------------------------------------------- bounds
MaxTime == 1
NumImages == 2

\* os.Getpid(): one process, so one value for every call
Pid == 42

\* the goroutines that run the helper: the one of the UI callbacks, and a
\* second one for the properties of a pair of overlapping calls
UiCall == "ui"
Calls == {UiCall, "other"}
Times == 0 .. MaxTime

\* image.Image values: decoded images, and the nil interface value
Image(i) == <<"image", i>>
NilImage == <<"nil", 0>>
Images == {Image(i) : i \in 1 .. NumImages}

\* runtime.GOOS
Platforms == {"windows", "linux", "darwin"}

\* os.TempDir(): the directory, or "" when it cannot be resolved
TempDirName == "C:\\Temp"
TempDirs == {"", TempDirName}

\* combined stdout/stderr texts the external process may produce
Outputs == {"", "Write-Error: 100% failed"}

\* ---------------------------------------------------------------- values
\* error values (and nil): a kind and the message as a sequence of parts
Nil == [kind |-> "nil", msg |-> <<>>]
Pending == [kind |-> "pending", msg |-> <<>>]
Panic == [kind |-> "panic", msg |-> <<"nil pointer dereference">>]

\* strconv of fmt's %d for non-negative integers
DigitChars == <<"0", "1", "2", "3", "4", "5", "6", "7", "8", "9">>

RECURSIVE FormatInt(_)
FormatInt(n) ==
    IF n < 10 THEN <<DigitChars[n + 1]>>
    ELSE FormatInt(n \div 10) \o <<DigitChars[(n % 10) + 1]>>

\* fmt.Sprintf("temp_qrcode_%d_%d.png", os.Getpid(), time.Now().UnixNano())
TmpFileName(pid, nano) ==
    <<"temp_qrcode_">> \o FormatInt(pid) \o <<"_">> \o FormatInt(nano) \o <<".png">>

\* filepath.Join(tmpDir, tmpFileName) on Windows
FilepathJoin(dir, name) == <<dir, "\\">> \o name

\* filepath.ToSlash: every separator becomes a slash
ToSlash(p) == [i \in 1 .. Len(p) |-> IF p[i] = "\\" THEN "/" ELSE p[i]]

\* Windows resolves a path with either separator to the same file
ResolvePath(p) == [i \in 1 .. Len(p) |-> IF p[i] = "/" THEN "\\" ELSE p[i]]

TmpFilePath(nano) == FilepathJoin(TempDirName, TmpFileName(Pid, nano))

AllPaths == {TmpFilePath(t) : t \in Times}
NoPath == <<>>

\* file contents
EmptyData == <<"empty", NilImage>>
PngData(img) == <<"png", img>>
PartialData(img) == <<"partial", img>>

\* a file system entry
NoFile == [exists |-> FALSE, creator |-> "none", data |-> EmptyData]
NewFile(c) == [exists |-> TRUE, creator |-> c, data |-> EmptyData]

\* what the external process found at the path
NotSeen == [ran |-> FALSE, exists |-> FALSE, closed |-> FALSE, data |-> EmptyData]

\* ---------------------------------------------------------------- errors
\* fmt.Errorf("...サポートされていません (%s)", runtime.GOOS)
ErrUnsupported(goos) ==
    [kind |-> "unsupported", msg |-> <<"not supported on (", goos, ")">>]

\* fmt.Errorf("一時ディレクトリが見つかりません")
ErrTempDir == [kind |-> "tempdir", msg |-> <<"temp dir not found">>]

\* fmt.Errorf("一時ファイル作成失敗 (%s): %w", tmpFilePath, err)
ErrCreate(p) == [kind |-> "create", msg |-> <<"create failed (">> \o p \o <<")">>]

\* fmt.Errorf("PNGエンコード失敗: %w", err)
ErrEncode == [kind |-> "encode", msg |-> <<"png encode failed">>]

\* fmt.Errorf("一時ファイルへの書き込み完了(クローズ)失敗 (%s): %w", tmpFilePath, err)
ErrClose(p) == [kind |-> "close", msg |-> <<"close failed (">> \o p \o <<")">>]

ErrProcessNoOutput(cause, output) ==
    [kind |-> "process", msg |-> <<"PowerShell failed: ", cause>>]

\* fmt.Errorf("PowerShell実行失敗: %w\n出力: %s", err, string(output))
ErrProcess(cause, output) ==
    [kind |-> "process", msg |-> <<"PowerShell failed: ", cause, "\noutput: ", output>>]

\* os.ErrClosed, from a Close of a file that was closed before
ErrAlreadyClosed == [kind |-> "already_closed", msg |-> <<"file already closed">>]
ErrIO == [kind |-> "io", msg |-> <<"i/o error">>]
ErrNotExist == [kind |-> "notexist", msg |-> <<"file does not exist">>]
ErrSharing == [kind |-> "sharing", msg |-> <<"file in use">>]

\* ---------------------------------------------------------------- helpers
\* the switch of copyImageToClipboard
DispatchAllWindows(goos) == "windows"

Dispatch(goos) == IF goos = "windows" THEN "windows" ELSE "other"

\* position after png.Encode returned err
AfterEncodeNoClose(err) == IF err # Nil THEN "defer_close" ELSE "exec"

AfterEncode(err) == IF err # Nil THEN "defer_close" ELSE "close"

\* position after the explicit file.Close() returned err
AfterCloseIgnoreErr(err) == "exec"

AfterClose(err) == IF err # Nil THEN "defer_close" ELSE "exec"

\* (*os.File).Close on a handle in state h, ioErr the system's answer when
\* the handle is really closed: a second Close answers os.ErrClosed
FileCloseIfOpen(h, ioErr) == IF h = "closed" THEN Nil ELSE ioErr

FileClose(h, ioErr) == IF h = "closed" THEN ErrAlreadyClosed ELSE ioErr

\* the deferred function logs a close error
ShouldLogClose(errClose) == errClose # Nil

\* errRemove != nil && !os.IsNotExist(errRemove)
ShouldLogRemove(errRemove) == errRemove # Nil /\ errRemove # ErrNotExist

\* the function has no named result: the deferred function cannot change
\* what the return statement set
DeferredResultEscalates(r, errClose, errRemove) ==
    IF errClose # Nil THEN errClose
    ELSE IF errRemove # Nil /\ errRemove # ErrNotExist THEN errRemove
    ELSE r

DeferredResult(r, errClose, errRemove) == r

\* os.Remove that succeeds
RemoveFileKeeps(f, p) == f

RemoveFile(f, p) == [f EXCEPT ![p] = NoFile]

\* ---------------------------------------------------------------- state
VARIABLES
    GOOS,         \* runtime.GOOS of the build
    now,          \* time.Now().UnixNano() as the system clock reports it
    fs,           \* the temp directory: path -> file
    clipboard,    \* the image data on the system clipboard
    pc,           \* position of each call
    img,          \* argument of each call
    tmpFilePath,  \* tmpFilePath of each call
    handle,       \* state of each call's file: "none", "open", "closed"
    ret,          \* value set by the call's return statement
    result,       \* value the call returned to its caller
    events,       \* system calls of each call, in order, with outcome
    logged,       \* log lines of the deferred function, per call
    output,       \* output of CombinedOutput, per call
    seen,         \* what the call's external process found at its path
    currentImage, \* main's currentImage, held for copy and save
    canvasImage,  \* qrImageCanvas.Image
    statusLabel,  \* the text of statusLabel, by its kind
    uiPc,         \* "ready", or "copying" while copyAction waits for the helper
    lastGenerate  \* outcome and image of the most recent generate action

\* the variables of the window's callbacks
uiVars == <<currentImage, canvasImage, statusLabel, uiPc, lastGenerate>>

vars == <<GOOS, now, fs, clipboard, pc, img, tmpFilePath, handle, ret, result,
          events, logged, output, seen, uiVars>>

\* no generate action yet
NoGenerate == [outcome |-> "none", image |-> NilImage]

Init ==
    /\ GOOS \in Platforms
    /\ now = 0
    /\ fs = [p \in AllPaths |-> NoFile]
    /\ clipboard = EmptyData
    /\ pc = [c \in Calls |-> "idle"]
    /\ img = [c \in Calls |-> NilImage]
    /\ tmpFilePath = [c \in Calls |-> NoPath]
    /\ handle = [c \in Calls |-> "none"]
    /\ ret = [c \in Calls |-> Pending]
    /\ result = [c \in Calls |-> Pending]
    /\ events = [c \in Calls |-> <<>>]
    /\ logged = [c \in Calls |-> {}]
    /\ output = [c \in Calls |-> ""]
    /\ seen = [c \in Calls |-> NotSeen]
    /\ currentImage = NilImage
    /\ canvasImage = NilImage
    /\ statusLabel = "initial"
    /\ uiPc = "ready"
    /\ lastGenerate = NoGenerate

Ev(c, step, outcome) == [events EXCEPT ![c] = Append(@, <<step, outcome>>)]

\* calls whose file handle on path p is open
OpenHandles(p) == {d \in Calls : handle[d] = "open" /\ tmpFilePath[d] = p}

\* the system clock advances
Tick ==
    /\ now < MaxTime
    /\ now' = now + 1
    /\ UNCHANGED <<GOOS, fs, clipboard, pc, img, tmpFilePath, handle, ret, result,
                   events, logged, output, seen>>
    /\ UNCHANGED uiVars

\* a file an earlier invocation on goroutine c left behind is no file of
\* the invocation that starts now
Earlier(f, c) ==
    [p \in AllPaths |-> IF f[p].creator = c THEN [f[p] EXCEPT !.creator = "earlier"]
                        ELSE f[p]]

\* copyImageToClipboard(image) is called on goroutine c, whose previous call,
\* if any, has returned: the switch on runtime.GOOS; on any other platform
\* copyImageToClipboardOther returns at once
Enter(c, image) ==
    /\ pc[c] \in {"idle", "done"}
    /\ img' = [img EXCEPT ![c] = image]
    /\ tmpFilePath' = [tmpFilePath EXCEPT ![c] = NoPath]
    /\ handle' = [handle EXCEPT ![c] = "none"]
    /\ ret' = [ret EXCEPT ![c] = Pending]
    /\ events' = [events EXCEPT ![c] = <<>>]
    /\ logged' = [logged EXCEPT ![c] = {}]
    /\ output' = [output EXCEPT ![c] = ""]
    /\ seen' = [seen EXCEPT ![c] = NotSeen]
    /\ fs' = Earlier(fs, c)
    /\ IF Dispatch(GOOS) = "windows"
       THEN /\ pc' = [pc EXCEPT ![c] = "tempdir"]
            /\ result' = [result EXCEPT ![c] = Pending]
       ELSE /\ pc' = [pc EXCEPT ![c] = "done"]
            /\ result' = [result EXCEPT ![c] = ErrUnsupported(GOOS)]
    /\ UNCHANGED <<GOOS, now, clipboard>>

\* the caller is the copy button's callback: a non-nil image, on the UI
\* goroutine, and the callback returns before the next one runs
Call(c) ==
    /\ c = UiCall
    /\ \E image \in Images : Enter(c, image)
    /\ UNCHANGED uiVars

\* any caller: any image.Image value, while the other goroutine's call is in
\* progress; one call on each goroutine
CallAny(c) ==
    /\ pc[c] = "idle"
    /\ \E image \in Images \cup {NilImage} : Enter(c, image)
    /\ UNCHANGED uiVars

\* os.TempDir(), the "" check, and the file name from pid and clock
BuildPath(c) ==
    /\ pc[c] = "tempdir"
    /\ \E tmpDir \in TempDirs :
         IF tmpDir = ""
         THEN /\ pc' = [pc EXCEPT ![c] = "done"]
              /\ result' = [result EXCEPT ![c] = ErrTempDir]
              /\ events' = Ev(c, "tempdir", "fail")
              /\ UNCHANGED tmpFilePath
         ELSE /\ pc' = [pc EXCEPT ![c] = "create"]
              /\ tmpFilePath' = [tmpFilePath EXCEPT
                                   ![c] = FilepathJoin(tmpDir, TmpFileName(Pid, now))]
              /\ events' = Ev(c, "tempdir", "ok")
              /\ UNCHANGED result
    /\ UNCHANGED <<GOOS, now, fs, clipboard, img, handle, ret, logged, output, seen>>
    /\ UNCHANGED uiVars

\* os.Create(tmpFilePath): creates the file, or truncates the one there
Create(c) ==
    /\ pc[c] = "create"
    /\ \/ /\ pc' = [pc EXCEPT ![c] = "done"]
          /\ result' = [result EXCEPT ![c] = ErrCreate(tmpFilePath[c])]
          /\ events' = Ev(c, "create", "fail")
          /\ UNCHANGED <<fs, handle>>
       \/ /\ pc' = [pc EXCEPT ![c] = "encode"]
          /\ fs' = [fs EXCEPT ![tmpFilePath[c]] =
                      IF @.exists THEN [@ EXCEPT !.data = EmptyData] ELSE NewFile(c)]
          /\ handle' = [handle EXCEPT ![c] = "open"]
          /\ events' = Ev(c, "create", "ok")
          /\ UNCHANGED result
    /\ UNCHANGED <<GOOS, now, clipboard, img, tmpFilePath, ret, logged, output,
                   seen>>
    /\ UNCHANGED uiVars

\* png.Encode(file, img): a nil image panics at img.Bounds(); otherwise the
\* PNG is written through the handle, or part of it before an error
Encode(c) ==
    /\ pc[c] = "encode"
    /\ IF img[c] = NilImage
       THEN /\ ret' = [ret EXCEPT ![c] = Panic]
            /\ pc' = [pc EXCEPT ![c] = "defer_close"]
            /\ events' = Ev(c, "encode", "panic")
            /\ UNCHANGED fs
       ELSE \E err \in {Nil, ErrIO} :
            /\ fs' = [fs EXCEPT ![tmpFilePath[c]].data =
                        IF err = Nil THEN PngData(img[c]) ELSE PartialData(img[c])]
            /\ ret' = [ret EXCEPT ![c] = IF err = Nil THEN @ ELSE ErrEncode]
            /\ pc' = [pc EXCEPT ![c] = AfterEncode(err)]
            /\ events' = Ev(c, "encode", IF err = Nil THEN "ok" ELSE "fail")
    /\ UNCHANGED <<GOOS, now, clipboard, img, tmpFilePath, handle, result, logged,
                   output, seen>>
    /\ UNCHANGED uiVars

\* the explicit file.Close() before the external process
CloseExplicit(c) ==
    /\ pc[c] = "close"
    /\ \E ioErr \in {Nil, ErrIO} :
         LET err == FileClose(handle[c], ioErr) IN
         /\ ret' = [ret EXCEPT ![c] = IF err = Nil THEN @ ELSE ErrClose(tmpFilePath[c])]
         /\ pc' = [pc EXCEPT ![c] = AfterClose(err)]
         /\ events' = Ev(c, "close",
                         IF handle[c] = "closed" THEN "already_closed"
                         ELSE IF err = Nil THEN "ok" ELSE "fail")
    /\ handle' = [handle EXCEPT ![c] = "closed"]
    /\ UNCHANGED <<GOOS, now, fs, clipboard, img, tmpFilePath, result, logged,
                   output, seen>>
    /\ UNCHANGED uiVars

\* exec.Command("powershell", ...).CombinedOutput(): the launch
ExecLaunch(c) ==
    /\ pc[c] = "exec"
    /\ \/ /\ ret' = [ret EXCEPT ![c] = ErrProcess("executable not found", output[c])]
          /\ pc' = [pc EXCEPT ![c] = "defer_close"]
          /\ events' = Ev(c, "exec", "fail")
       \/ /\ pc' = [pc EXCEPT ![c] = "running"]
          /\ events' = Ev(c, "exec", "launched")
          /\ UNCHANGED ret
    /\ UNCHANGED <<GOOS, now, fs, clipboard, img, tmpFilePath, handle, result, logged,
                   output, seen>>
    /\ UNCHANGED uiVars

\* the file the script's FromFile('<ToSlash(tmpFilePath)>') opens
ScriptFile(c) == fs[ResolvePath(ToSlash(tmpFilePath[c]))]

\* FromFile succeeds on an existing PNG file no writer holds open
Loadable(c) ==
    /\ ScriptFile(c).exists
    /\ ScriptFile(c).data[1] = "png"
    /\ OpenHandles(tmpFilePath[c]) = {}

\* the script runs (FromFile, SetImage, Dispose, or catch and exit 1), the
\* process exits and CombinedOutput returns its output and exit status
ExecReturn(c) ==
    /\ pc[c] = "running"
    /\ seen' = [seen EXCEPT ![c] = [ran |-> TRUE,
                                    exists |-> ScriptFile(c).exists,
                                    closed |-> OpenHandles(tmpFilePath[c]) = {},
                                    data |-> ScriptFile(c).data]]
    /\ \E out \in Outputs :
         /\ output' = [output EXCEPT ![c] = out]
         /\ \/ /\ Loadable(c)
               /\ clipboard' = ScriptFile(c).data
               /\ UNCHANGED ret
               /\ events' = Ev(c, "wait", "ok")
            \/ /\ ret' = [ret EXCEPT ![c] = ErrProcess("exit status 1", out)]
               /\ events' = Ev(c, "wait", "fail")
               /\ UNCHANGED clipboard
    /\ pc' = [pc EXCEPT ![c] = "defer_close"]
    /\ UNCHANGED <<GOOS, now, fs, img, tmpFilePath, handle, result, logged>>
    /\ UNCHANGED uiVars

\* the return statement of a path that set no error: return nil
ReturnValue(r) == IF r = Pending THEN Nil ELSE r

\* the deferred function, first half: file.Close(), its error only logged
DeferClose(c) ==
    /\ pc[c] = "defer_close"
    /\ \E ioErr \in {Nil, ErrIO} :
         LET errClose == FileClose(handle[c], ioErr) IN
         /\ logged' = [logged EXCEPT ![c] =
                         IF ShouldLogClose(errClose) THEN @ \cup {"close_error"} ELSE @]
         /\ ret' = [ret EXCEPT ![c] = DeferredResult(ReturnValue(@), errClose, Nil)]
         /\ events' = Ev(c, "defer_close",
                         IF handle[c] = "closed" THEN "already_closed"
                         ELSE IF errClose = Nil THEN "ok" ELSE "fail")
    /\ handle' = [handle EXCEPT ![c] = "closed"]
    /\ pc' = [pc EXCEPT ![c] = "defer_remove"]
    /\ UNCHANGED <<GOOS, now, fs, clipboard, img, tmpFilePath, result, output, seen>>
    /\ UNCHANGED uiVars

\* what os.Remove(p) can answer: an absent file is ErrNotExist; a file some
\* handle holds open cannot be deleted; otherwise success or another error
RemoveAnswers(p) ==
    IF ~fs[p].exists THEN {ErrNotExist}
    ELSE IF OpenHandles(p) # {} THEN {ErrSharing}
    ELSE {Nil, ErrIO}

\* the deferred function, second half: os.Remove(tmpFilePath), its error
\* only logged; then the call returns to its caller
DeferRemove(c) ==
    /\ pc[c] = "defer_remove"
    /\ \E errRemove \in RemoveAnswers(tmpFilePath[c]) :
         /\ fs' = IF errRemove = Nil THEN RemoveFile(fs, tmpFilePath[c]) ELSE fs
         /\ logged' = [logged EXCEPT ![c] =
                         IF ShouldLogRemove(errRemove) THEN @ \cup {"remove_error"}
                         ELSE IF errRemove = Nil THEN @ \cup {"remove_ok"} ELSE @]
         /\ result' = [result EXCEPT ![c] = DeferredResult(ret[c], Nil, errRemove)]
         /\ events' = Ev(c, "remove", errRemove.kind)
    /\ pc' = [pc EXCEPT ![c] = "done"]
    /\ UNCHANGED <<GOOS, now, clipboard, img, tmpFilePath, handle, ret, output,
                   seen>>
    /\ UNCHANGED uiVars

\* one step of a call in progress
Step(c) ==
    \/ BuildPath(c)
    \/ Create(c)
    \/ Encode(c)
    \/ CloseExplicit(c)
    \/ ExecLaunch(c)
    \/ ExecReturn(c)
    \/ DeferClose(c)
    \/ DeferRemove(c)

\* the program: the helper is called from the copy button's callback
Next ==
    \/ Tick
    \/ Call(UiCall)
    \/ Step(UiCall)

Spec == Init /\ [][Next]_vars

\* the helper under any host: nil images and overlapping calls included
NextHost ==
    \/ Tick
    \/ \E c \in Calls : CallAny(c)
    \/ \E c \in Calls : Step(c)

SpecHost == Init /\ [][NextHost]_vars

\* ---------------------------------------------------------------- window
\* inputEntry.Text when the generate action reads it: empty, a text the QR
\* encoder accepts, or one too long for a QR code
Text(i) == <<"text", i>>
EmptyText == <<"", 0>>
TooLongText == <<"toolong", 0>>
Texts == {EmptyText, TooLongText} \cup {Text(i) : i \in 1 .. NumImages}

\* qrcode.Encode(inputText, qrcode.Medium, 256): the PNG of the text's QR
\* code, or an error for a text that does not fit
QrEncodeFails(text) == text = TooLongText

QrEncode(text) == PngData(Image(text[2]))

\* image.Decode of PNG data: the image the data encodes
PngDecode(data) == data[2]

\* currentImage after a generate action that failed: currentImage = nil
ImageAfterFailureKeeps(cur) == cur

ImageAfterFailure(cur) == NilImage

\* copyAction goes on to copyImageToClipboard: currentImage != nil
CopyGuardAlways(cur) == TRUE

CopyGuard(cur) == cur # NilImage

helperVars == <<GOOS, now, fs, clipboard, pc, img, tmpFilePath, handle, ret, result,
                events, logged, output, seen>>

\* a failing branch of the generate action: image cleared, canvas cleared,
\* status set, error dialog shown
GenerateFails(status) ==
    /\ currentImage' = ImageAfterFailure(currentImage)
    /\ canvasImage' = NilImage
    /\ statusLabel' = status
    /\ lastGenerate' = [outcome |-> "failed", image |-> NilImage]

\* generateAction: the generate button's callback
GenerateAction ==
    /\ uiPc = "ready"
    /\ \E inputText \in Texts :
         IF inputText = EmptyText
         THEN GenerateFails("generate_empty")
         ELSE IF QrEncodeFails(inputText)
         THEN GenerateFails("generate_encode_failed")
         ELSE \E decodeErr \in {Nil, ErrIO} :
                IF decodeErr # Nil
                THEN GenerateFails("generate_decode_failed")
                ELSE LET imgData == PngDecode(QrEncode(inputText)) IN
                     /\ currentImage' = imgData
                     /\ canvasImage' = imgData
                     /\ statusLabel' = "generated"
                     /\ lastGenerate' = [outcome |-> "ok", image |-> imgData]
    /\ UNCHANGED <<helperVars, uiPc>>

\* copyAction, up to the call of copyImageToClipboard(currentImage): with no
\* image it sets the status, shows a dialog and returns
CopyAction ==
    /\ uiPc = "ready"
    /\ IF CopyGuard(currentImage)
       THEN /\ Enter(UiCall, currentImage)
            /\ uiPc' = "copying"
            /\ UNCHANGED statusLabel
       ELSE /\ statusLabel' = "copy_no_image"
            /\ UNCHANGED <<helperVars, uiPc>>
    /\ UNCHANGED <<currentImage, canvasImage, lastGenerate>>

\* copyAction, after copyImageToClipboard returned err
CopyReturn ==
    /\ uiPc = "copying"
    /\ pc[UiCall] = "done"
    /\ statusLabel' = IF result[UiCall] # Nil THEN "copy_failed" ELSE "copied"
    /\ uiPc' = "ready"
    /\ UNCHANGED <<helperVars, currentImage, canvasImage, lastGenerate>>

\* what the file-save dialog's callback can end with
SaveOutcomes == {"save_dialog_error", "save_cancelled", "save_encode_failed", "saved"}

\* saveAction and the callback of its modal file dialog, which encodes
\* currentImage to the file the user chose
SaveAction ==
    /\ uiPc = "ready"
    /\ IF currentImage = NilImage
       THEN statusLabel' = "save_no_image"
       ELSE \E outcome \in SaveOutcomes : statusLabel' = outcome
    /\ UNCHANGED <<helperVars, currentImage, canvasImage, uiPc, lastGenerate>>

\* the program with its window: the buttons' callbacks run one at a time,
\* and the helper runs inside copyAction
NextUi ==
    \/ Tick
    \/ GenerateAction
    \/ CopyAction
    \/ CopyReturn
    \/ SaveAction
    \/ Step(UiCall)

SpecUi == Init /\ [][NextUi]_vars

\* ---------------------------------------------------------------- claims
Done(c) == pc[c] = "done"

\* the call made the system call `step` with outcome `outcome`
Has(c, step, outcome) ==
    \E i \in 1 .. Len(events[c]) : events[c][i] = <<step, outcome>>

\* positions in the call's events of the system call `step`
At(c, step) == {i \in 1 .. Len(events[c]) : events[c][i][1] = step}

Contains(msg, part) == \E i \in 1 .. Len(msg) : msg[i] = part

\* the files on disk that call c created
FilesOf(c) == {p \in AllPaths : fs[p].exists /\ fs[p].creator = c}

\* C1: a call that got past os.Create runs os.Remove on its path on every
\* exit (encode failure, panic, close failure, process failure, success), and
\* when that Remove did not fail no file the call created is on disk after
\* the call returned; its path is free unless another call uses the same one
C1_TempFileDeleted ==
    \A c \in Calls :
        (Done(c) /\ Has(c, "create", "ok")) =>
            /\ Cardinality(At(c, "remove")) = 1
            /\ (Has(c, "remove", "nil") \/ Has(c, "remove", "notexist")) =>
                   /\ FilesOf(c) = {}
                   /\ (\A d \in Calls \ {c} : tmpFilePath[d] # tmpFilePath[c])
                         => ~fs[tmpFilePath[c]].exists

\* a call returned after a failed encode, another after full success, and
\* both deleted their file
C1_Witness ==
    \E c, d \in Calls :
        /\ Done(c) /\ Has(c, "encode", "fail") /\ Has(c, "remove", "nil")
        /\ Done(d) /\ Has(d, "wait", "ok") /\ Has(d, "remove", "nil")

\* C2: off Windows every call returns the unsupported-platform error naming
\* runtime.GOOS in its first step, and nothing touches files or processes
C2_UnsupportedPlatform ==
    GOOS # "windows" =>
        /\ \A p \in AllPaths : fs[p] = NoFile
        /\ clipboard = EmptyData
        /\ \A c \in Calls :
              /\ pc[c] \in {"idle", "done"}
              /\ events[c] = <<>>
              /\ handle[c] = "none"
              /\ seen[c] = NotSeen
              /\ Done(c) => /\ result[c].kind = "unsupported"
                            /\ Contains(result[c].msg, GOOS)

C2_Witness == GOOS = "linux" /\ Done(UiCall)

\* the five primary steps and the error kind each one's failure returns
PrimarySteps == {"tempdir", "create", "encode", "close", "exec", "wait"}

KindOf(step) == IF step \in {"exec", "wait"} THEN "process" ELSE step

AllPrimaryOk(c) ==
    /\ Has(c, "tempdir", "ok")
    /\ Has(c, "create", "ok")
    /\ Has(c, "encode", "ok")
    /\ Has(c, "close", "ok")
    /\ Has(c, "exec", "launched")
    /\ Has(c, "wait", "ok")

\* positions of the primary steps that failed
PrimaryFailures(c) ==
    {i \in 1 .. Len(events[c]) :
        events[c][i][1] \in PrimarySteps /\ events[c][i][2] = "fail"}

\* C3: on Windows a call returns nil exactly when temp directory, create,
\* encode, explicit close and the external process all succeeded; otherwise
\* it returns the error of the first step that failed
C3_SuccessIffAllSteps ==
    \A c \in Calls :
        (GOOS = "windows" /\ Done(c)) =>
            /\ (result[c] = Nil) <=> AllPrimaryOk(c)
            /\ \A i \in PrimaryFailures(c) :
                  (\A j \in PrimaryFailures(c) : i <= j) =>
                      result[c].kind = KindOf(events[c][i][1])
            /\ PrimaryFailures(c) = {} => result[c] = Nil

C3_Witness ==
    \E c \in Calls : Done(c) /\ AllPrimaryOk(c) /\ result[c] = Nil

\* C4: the deferred function's Close error and Remove error are logged; the
\* deferred function leaves the value of the return statement as it is; and a
\* Remove that finds no file logs no error
C4_CleanupNeverEscalates ==
    /\ [](\A c \in Calls :
            /\ (Has(c, "defer_close", "fail") \/ Has(c, "defer_close", "already_closed"))
                  => "close_error" \in logged[c]
            /\ (Has(c, "remove", "io") \/ Has(c, "remove", "sharing"))
                  => "remove_error" \in logged[c]
            /\ Has(c, "remove", "notexist") => "remove_error" \notin logged[c]
            /\ (Done(c) /\ AllPrimaryOk(c)) => result[c] = Nil)
    /\ [][\A c \in Calls :
            /\ (pc[c] = "defer_close" /\ pc'[c] # pc[c]) =>
                  ret'[c] = ReturnValue(ret[c])
            /\ (pc[c] = "defer_remove" /\ pc'[c] # pc[c]) =>
                  result'[c] = ret[c]]_vars

\* one call returned nil although its cleanup logged a close error; the
\* other kept its process error, logged a close error, and its Remove found
\* the file already gone without logging that
C4_Witness ==
    \E c, d \in Calls :
        /\ Done(c) /\ result[c] = Nil /\ "close_error" \in logged[c]
        /\ Done(d) /\ result[d].kind = "process" /\ "close_error" \in logged[d]
        /\ Has(d, "remove", "notexist") /\ "remove_error" \notin logged[d]

\* C5: two calls never build the same temp file path
C5_DistinctPaths ==
    \A c, d \in Calls :
        (c # d /\ tmpFilePath[c] # NoPath /\ tmpFilePath[d] # NoPath) =>
            tmpFilePath[c] # tmpFilePath[d]

\* C6: a call whose external process did not launch or exited non-zero
\* returns a process error whose message ends with the captured output
C6_ProcessErrorCarriesOutput ==
    \A c \in Calls :
        (Done(c) /\ (Has(c, "exec", "fail") \/ Has(c, "wait", "fail"))) =>
            /\ result[c].kind = "process"
            /\ result[c].msg[Len(result[c].msg)] = output[c]

C6_Witness ==
    \E c \in Calls : Done(c) /\ Has(c, "wait", "fail") /\ output[c] # ""

\* C7: a call on Windows with a nil image creates no file, launches no
\* process and returns a validation error
C7_NilImageRejected ==
    \A c \in Calls :
        (GOOS = "windows" /\ pc[c] # "idle" /\ img[c] = NilImage) =>
            /\ ~Has(c, "create", "ok")
            /\ At(c, "exec") = {}
            /\ Done(c) => result[c].kind = "validation"

\* every position of `first` in the call's events is before every position
\* of `then`
Before(c, first, then) == \A i \in At(c, first) : \A j \in At(c, then) : i < j

\* C8: within one call: create, encode, explicit close, process, remove, in
\* this order; the process is launched at most once and only after encode
\* and explicit close succeeded; it finds an existing, closed file holding
\* the call's PNG; Remove comes last, after the process returned, or with no
\* process launched when encode or close failed
C8_StepOrder ==
    \A c \in Calls :
        /\ Cardinality(At(c, "exec")) <= 1
        /\ Cardinality(At(c, "wait")) <= 1
        /\ Before(c, "create", "encode")
        /\ Before(c, "encode", "close")
        /\ Before(c, "close", "exec")
        /\ Before(c, "exec", "wait")
        /\ At(c, "exec") # {} => /\ Has(c, "encode", "ok")
                                 /\ Has(c, "close", "ok")
        /\ seen[c].ran => /\ seen[c].exists
                          /\ seen[c].closed
                          /\ seen[c].data = PngData(img[c])
        /\ At(c, "remove") # {} =>
              /\ At(c, "remove") = {Len(events[c])}
              /\ Has(c, "create", "ok")
              /\ Has(c, "exec", "launched") => At(c, "wait") # {}
              /\ At(c, "exec") = {} =>
                    (Has(c, "encode", "fail") \/ Has(c, "close", "fail"))

C8_Witness ==
    \E c \in Calls :
        /\ Done(c)
        /\ seen[c].ran
        /\ events[c] = << <<"tempdir", "ok">>, <<"create", "ok">>, <<"encode", "ok">>,
                          <<"close", "ok">>, <<"exec", "launched">>, <<"wait", "ok">>,
                          <<"defer_close", "already_closed">>, <<"remove", "nil">> >>

\* Close calls of the call that reached an open handle
Releases(c) ==
    {i \in At(c, "close") \cup At(c, "defer_close") :
        events[c][i][2] # "already_closed"}

\* C9, as stated: the deferred function closes the handle only when it is
\* still open, so after an explicit close there is no second Close and a
\* fully successful call logs no close error
C9_DeferClosesOnlyIfOpen ==
    \A c \in Calls :
        Done(c) =>
            /\ At(c, "close") # {} => ~Has(c, "defer_close", "already_closed")
            /\ result[c] = Nil => "close_error" \notin logged[c]

\* C9, amended: the deferred function calls Close on every exit; the handle
\* is released exactly once per call; after an explicit close the deferred
\* Close answers "already closed", which is logged, also on a fully
\* successful call
C9_DeferAlwaysCloses ==
    \A c \in Calls :
        (Done(c) /\ Has(c, "create", "ok")) =>
            /\ Cardinality(At(c, "defer_close")) = 1
            /\ Cardinality(Releases(c)) = 1
            /\ At(c, "close") # {} =>
                  /\ Has(c, "defer_close", "already_closed")
                  /\ "close_error" \in logged[c]
            /\ result[c] = Nil => "close_error" \in logged[c]

C9_Witness ==
    \E c \in Calls :
        /\ Done(c)
        /\ result[c] = Nil
        /\ Has(c, "defer_close", "already_closed")
        /\ "close_error" \in logged[c]

\* C10: while a call is between its encode and the return of its process,
\* its file exists and holds its own PNG, whatever the other call does; and
\* the process of each call finds exactly that
C10_CallsIndependent ==
    \A c \in Calls :
        /\ pc[c] \in {"close", "exec", "running"} =>
              /\ fs[tmpFilePath[c]].exists
              /\ fs[tmpFilePath[c]].data = PngData(img[c])
        /\ seen[c].ran => /\ seen[c].exists
                          /\ seen[c].data = PngData(img[c])

\* the variables that file and process activity of the helper changes
ActivityVars == <<fs, clipboard, pc, img, tmpFilePath, handle, events, seen, output>>

\* C11: after any sequence of generate, copy and save actions currentImage
\* is non-nil exactly when the most recent generate action succeeded, and is
\* then the image that action decoded; after a failed generate it is nil;
\* the helper is only ever called with a non-nil image, and while
\* currentImage is nil no step touches files, processes or the helper
C11_HeldImage ==
    /\ [](/\ (currentImage # NilImage) <=> (lastGenerate.outcome = "ok")
          /\ lastGenerate.outcome = "ok" => currentImage = lastGenerate.image
          /\ lastGenerate.outcome = "failed" => currentImage = NilImage
          /\ pc[UiCall] # "idle" => img[UiCall] # NilImage
          /\ uiPc = "copying" => img[UiCall] = currentImage)
    /\ [][currentImage = NilImage => UNCHANGED ActivityVars]_vars

\* a generate action succeeded, a copy ran the helper on its image to the
\* end, and a generate action that failed then cleared the image
C11_Witness ==
    /\ lastGenerate.outcome = "failed"
    /\ currentImage = NilImage
    /\ statusLabel = "copy_no_image"
    /\ Done(UiCall)
    /\ img[UiCall] # NilImage
    /\ GOOS = "windows"
    /\ Has(UiCall, "remove", "nil")

====
